---- MODULE Spec2Model ----
(***************************************************************************)
(* A model of the GPT-5 MCP server: the tool-call handler of server.ts,    *)
(* the MessageProcessor (validateRequest, sanitizeText, truncateIfNeeded,  *)
(* formatResponse, createErrorResponse) and the GPT5Client (query,         *)
(* testConnection).                                                        *)
(*                                                                         *)
(* Strings are run-length encoded: a text is a sequence of runs            *)
(* [ch |-> c, n |-> k], k >= 1, adjacent runs holding different c.  A run  *)
(* stands for k copies of the character c, so that texts of 100,000 or     *)
(* 1,520,000 characters (the limits of the code) are small values.  c is   *)
(* one character (" ", "\n", "x", the names NUL, SOH, BT for \x00, \x01   *)
(* and the backtick) or a                                                  *)
(* fixed literal of the code (an error message, the display header) that   *)
(* no operation looks inside.  JavaScript numbers are integers here (JSON  *)
(* carries neither NaN nor Infinity).                                      *)
(***************************************************************************)
EXTENDS Integers, Sequences, FiniteSets, TLC

VARIABLES config, calls, input, output

vars == <<config, calls, input, output>>

Min(a, b) == IF a < b THEN a ELSE b
Max(a, b) == IF a > b THEN a ELSE b

(***************************************************************************)
(* Texts                                                                   *)
(***************************************************************************)

Run(c, k) == [ch |-> c, n |-> k]

\* The one-piece text holding the literal s.
Tok(s) == <<Run(s, 1)>>

\* Merge adjacent runs of the same character and drop empty runs.
RECURSIVE Norm(_)
Norm(t) ==
  IF t = <<>> THEN <<>>
  ELSE LET h == Head(t)
           r == Norm(Tail(t))
       IN  IF h.n = 0 THEN r
           ELSE IF r # <<>> /\ Head(r).ch = h.ch
                THEN <<Run(h.ch, h.n + Head(r).n)>> \o Tail(r)
                ELSE <<h>> \o r

\* a + b of JavaScript.
Concat(a, b) == Norm(a \o b)

TruncationMarker == "...[truncated]"

\* The number of characters a piece stands for.
Width(c) == IF c = TruncationMarker THEN 14 ELSE 1

\* String.prototype.length
RECURSIVE Length(_)
Length(t) == IF t = <<>> THEN 0 ELSE Head(t).n * Width(Head(t).ch) + Length(Tail(t))

\* String.prototype.substring(0, k), on texts of single characters.
RECURSIVE Substring0(_, _)
Substring0(t, k) ==
  IF t = <<>> \/ k <= 0 THEN <<>>
  ELSE IF Head(t).n >= k THEN <<Run(Head(t).ch, k)>>
  ELSE <<Head(t)>> \o Substring0(Tail(t), k - Head(t).n)

\* The white space String.prototype.trim removes (of the characters modelled).
WhiteSpace == {" ", "\n", "\t"}

RECURSIVE TrimStart(_)
TrimStart(t) ==
  IF t # <<>> /\ Head(t).ch \in WhiteSpace THEN TrimStart(Tail(t)) ELSE t

RECURSIVE TrimEnd(_)
TrimEnd(t) ==
  IF t # <<>> /\ t[Len(t)].ch \in WhiteSpace
  THEN TrimEnd(SubSeq(t, 1, Len(t) - 1))
  ELSE t

\* String.prototype.trim
Trim(t) == TrimEnd(TrimStart(t))

\* text.replace(/[S]/g, ''): every character of S removed.
RemoveChars(t, S) == Norm(SelectSeq(t, LAMBDA r : r.ch \notin S))

\* /\x00/
NullByte == {"NUL"}

\* /[\x01-\x1F\x7F]/ : tab (\x09) and newline (\x0A) lie inside \x01-\x1F.
ControlChars == {"SOH", "\t", "\n", "DEL"}

SanitizeCap == 100000

\* The mutant: the length cap dropped.
sanitizeTextNoCap(text) ==
  RemoveChars(RemoveChars(Trim(text), NullByte), ControlChars)

\* MessageProcessor.sanitizeText
sanitizeText(text) ==
  Substring0(RemoveChars(RemoveChars(Trim(text), NullByte), ControlChars),
             SanitizeCap)

(***************************************************************************)
(* JavaScript values: [t |-> type, n |-> number, x |-> text].              *)
(***************************************************************************)

Undefined == [t |-> "undefined", n |-> 0, x |-> <<>>]
Null      == [t |-> "null", n |-> 0, x |-> <<>>]
Num(v)    == [t |-> "number", n |-> v, x |-> <<>>]
Str(text) == [t |-> "string", n |-> 0, x |-> text]
Bool(b)   == [t |-> "boolean", n |-> IF b THEN 1 ELSE 0, x |-> <<>>]

\* typeof v
TypeOf(v) == IF v.t \in {"null", "array", "object"} THEN "object" ELSE v.t

\* !!v
Truthy(v) ==
  CASE v.t \in {"undefined", "null"} -> FALSE
    [] v.t = "number"  -> v.n # 0
    [] v.t = "string"  -> v.x # <<>>
    [] v.t = "boolean" -> v.n = 1
    [] OTHER -> TRUE

\* a || b
Or(a, b) == IF Truthy(a) THEN a ELSE b

\* The value v with the properties read by the handlers.  Reading a
\* property of a primitive or of an array gives undefined.
Raw(v, p, c, m, vb, re, mt, tp) ==
  [t |-> v.t, n |-> v.n, x |-> v.x,
   prompt |-> p, context |-> c, model |-> m, verbosity |-> vb,
   reasoning_effort |-> re, max_tokens |-> mt, temperature |-> tp]

Primitive(v) ==
  Raw(v, Undefined, Undefined, Undefined, Undefined, Undefined, Undefined, Undefined)

Object(p, c, m, vb, re, mt, tp) ==
  Raw([t |-> "object", n |-> 0, x |-> <<>>], p, c, m, vb, re, mt, tp)

(***************************************************************************)
(* Errors and results of a call that may throw.                            *)
(***************************************************************************)

Error(name, message, status) ==
  [name |-> name, message |-> message, statusCode |-> status]

NoError == Error("none", <<>>, Undefined)

NoRequest ==
  [prompt |-> Undefined, context |-> Undefined, model |-> Undefined,
   verbosity |-> Undefined, reasoning_effort |-> Undefined,
   max_tokens |-> Undefined, temperature |-> Undefined]

Return(v) == [ok |-> TRUE, value |-> v, error |-> NoError]
Throw(e)  == [ok |-> FALSE, value |-> NoRequest, error |-> e]

(***************************************************************************)
(* types.ts                                                                *)
(***************************************************************************)

GPT5_MODELS == {"gpt-5", "gpt-5-mini", "gpt-5-nano"}
VERBOSITY_LEVELS == {"low", "medium", "high"}
REASONING_EFFORT_LEVELS == {"minimal", "standard", "extended"}

MaxOutputTokens == 128000
MinOutputTokens == 1
MaxTemperature == 2
MinTemperature == 0

(***************************************************************************)
(* MessageProcessor.validateRequest                                        *)
(***************************************************************************)

MsgNotObject == "Invalid request: must be an object"
MsgNoPrompt == "Invalid request: prompt is required and must be a string"

\* The mutant: typeof alone, which lets null through.
IsRequestObjectTypeofOnly(rawRequest) == TypeOf(rawRequest) = "object"

\* !(!rawRequest || typeof rawRequest !== 'object')
IsRequestObject(rawRequest) ==
  Truthy(rawRequest) /\ TypeOf(rawRequest) = "object"

\* !(!rawRequest.prompt || typeof rawRequest.prompt !== 'string')
HasPrompt(rawRequest) ==
  Truthy(rawRequest.prompt) /\ TypeOf(rawRequest.prompt) = "string"

\* Math.min(Math.max(v, 1), 128000)
ClampMaxTokens(v) == Min(Max(v, MinOutputTokens), MaxOutputTokens)

\* The mutant: the lower bound alone.
ClampTemperatureNoUpper(v) == Max(v, MinTemperature)

\* Math.min(Math.max(v, 0), 2)
ClampTemperature(v) == Min(Max(v, MinTemperature), MaxTemperature)

\* The mutant: the default verbosity and reasoning effort of another level.
RequestDefaultsOther(cfg) ==
  [model |-> Str(Tok(cfg.defaultModel)),
   verbosity |-> Str(Tok("low")),
   reasoning_effort |-> Str(Tok("minimal"))]

\* The right-hand sides of the || of lines 180-182.
RequestDefaults(cfg) ==
  [model |-> Str(Tok(cfg.defaultModel)),
   verbosity |-> Str(Tok("medium")),
   reasoning_effort |-> Str(Tok("standard"))]

validateRequest(rawRequest, cfg) ==
  IF ~IsRequestObject(rawRequest)
  THEN Throw(Error("Error", Tok(MsgNotObject), Undefined))
  ELSE IF ~HasPrompt(rawRequest)
  THEN Throw(Error("Error", Tok(MsgNoPrompt), Undefined))
  ELSE Return(
    [prompt |-> Str(sanitizeText(rawRequest.prompt.x)),
     model |-> Or(rawRequest.model, RequestDefaults(cfg).model),
     verbosity |-> Or(rawRequest.verbosity, RequestDefaults(cfg).verbosity),
     reasoning_effort |->
       Or(rawRequest.reasoning_effort, RequestDefaults(cfg).reasoning_effort),
     context |->
       IF Truthy(rawRequest.context) /\ TypeOf(rawRequest.context) = "string"
       THEN Str(sanitizeText(rawRequest.context.x))
       ELSE Undefined,
     max_tokens |->
       IF Truthy(rawRequest.max_tokens) /\ TypeOf(rawRequest.max_tokens) = "number"
       THEN Num(ClampMaxTokens(rawRequest.max_tokens.n))
       ELSE Undefined,
     temperature |->
       IF rawRequest.temperature.t # "undefined"
          /\ TypeOf(rawRequest.temperature) = "number"
       THEN Num(ClampTemperature(rawRequest.temperature.n))
       ELSE Undefined])

(***************************************************************************)
(* GPT5QueryRequestSchema.parse                                            *)
(***************************************************************************)

\* z.enum(E): a string that is one of E.
InEnum(v, E) == v.t = "string" /\ \E e \in E : v.x = Tok(e)

\* z.number().min(lo).max(hi)
NumberIn(v, lo, hi) == v.t = "number" /\ lo <= v.n /\ v.n <= hi

\* The issues the schema raises, field by field.
SchemaIssues(r) ==
  (IF r.prompt.t # "string" THEN <<Run("prompt: Expected string", 1)>>
   ELSE IF Length(r.prompt.x) < 1 THEN <<Run("Prompt cannot be empty", 1)>>
   ELSE <<>>)
  \o (IF r.context.t \in {"undefined", "string"} THEN <<>>
      ELSE <<Run("context: Expected string", 1)>>)
  \o (IF r.model.t = "undefined" \/ InEnum(r.model, GPT5_MODELS) THEN <<>>
      ELSE <<Run("model: Invalid enum value", 1)>>)
  \o (IF r.verbosity.t = "undefined" \/ InEnum(r.verbosity, VERBOSITY_LEVELS)
      THEN <<>> ELSE <<Run("verbosity: Invalid enum value", 1)>>)
  \o (IF r.reasoning_effort.t = "undefined"
         \/ InEnum(r.reasoning_effort, REASONING_EFFORT_LEVELS)
      THEN <<>> ELSE <<Run("reasoning_effort: Invalid enum value", 1)>>)
  \o (IF r.max_tokens.t = "undefined"
         \/ NumberIn(r.max_tokens, MinOutputTokens, MaxOutputTokens)
      THEN <<>> ELSE <<Run("max_tokens: Invalid number", 1)>>)
  \o (IF r.temperature.t = "undefined"
         \/ NumberIn(r.temperature, MinTemperature, MaxTemperature)
      THEN <<>> ELSE <<Run("temperature: Invalid number", 1)>>)

\* The mutant: the schema fills in its defaults and checks nothing.
SchemaParseUnchecked(r) ==
  Return([r EXCEPT
    !.model = IF r.model.t = "undefined" THEN Str(Tok("gpt-5")) ELSE r.model,
    !.verbosity =
       IF r.verbosity.t = "undefined" THEN Str(Tok("medium")) ELSE r.verbosity,
    !.reasoning_effort =
       IF r.reasoning_effort.t = "undefined" THEN Str(Tok("standard"))
       ELSE r.reasoning_effort])

\* parse: the request with the defaults of the schema, or a ZodError whose
\* message lists the issues.
SchemaParse(r) ==
  IF SchemaIssues(r) # <<>>
  THEN Throw(Error("ZodError", SchemaIssues(r), Undefined))
  ELSE Return([r EXCEPT
         !.model = IF r.model.t = "undefined" THEN Str(Tok("gpt-5")) ELSE r.model,
         !.verbosity =
            IF r.verbosity.t = "undefined" THEN Str(Tok("medium")) ELSE r.verbosity,
         !.reasoning_effort =
            IF r.reasoning_effort.t = "undefined" THEN Str(Tok("standard"))
            ELSE r.reasoning_effort])

(***************************************************************************)
(* MessageProcessor.estimateTokens, truncateIfNeeded                       *)
(***************************************************************************)

MaxPromptTokens == 380000
CharsPerToken == 4
MarkerReserve == 100

\* Math.ceil(text.length / 4)
estimateTokens(text) == (Length(text) + CharsPerToken - 1) \div CharsPerToken

\* request.context || ''
ContextOrEmpty(request) ==
  IF Truthy(request.context) THEN request.context.x ELSE <<>>

\* The mutant: the prompt is cut first and the context left alone.
truncateIfNeededPromptFirst(request) ==
  LET maxChars == MaxPromptTokens * CharsPerToken
      totalLength == Length(request.prompt.x) + Length(ContextOrEmpty(request))
  IN  IF totalLength > maxChars
      THEN [request EXCEPT !.prompt =
             Str(Concat(Substring0(request.prompt.x,
                                   Max(0, maxChars - Length(ContextOrEmpty(request)))),
                        Tok(TruncationMarker)))]
      ELSE request

truncateIfNeeded(request) ==
  LET estimatedTokens ==
        estimateTokens(Concat(request.prompt.x, ContextOrEmpty(request)))
      maxChars == MaxPromptTokens * CharsPerToken
      totalLength == Length(request.prompt.x) + Length(ContextOrEmpty(request))
      contextLimit == Max(0, maxChars - Length(request.prompt.x))
      context1 ==
        IF Truthy(request.context) /\ totalLength > maxChars
        THEN Str(Concat(Substring0(request.context.x, contextLimit),
                        Tok(TruncationMarker)))
        ELSE request.context
      prompt1 ==
        IF Length(request.prompt.x) > maxChars
        THEN Str(Concat(Substring0(request.prompt.x, maxChars - MarkerReserve),
                        Tok(TruncationMarker)))
        ELSE request.prompt
  IN  IF estimatedTokens > MaxPromptTokens
      THEN [request EXCEPT !.context = context1, !.prompt = prompt1]
      ELSE request

(***************************************************************************)
(* GPT5Client.formatRequest, query                                         *)
(***************************************************************************)

\* The content of the single user message.
MessageContent(request) ==
  IF Truthy(request.context)
  THEN Norm(Tok("Context: ") \o request.context.x
            \o <<Run("\n", 2), Run("Request: ", 1)>> \o request.prompt.x)
  ELSE request.prompt.x

formatRequest(request) ==
  [model |-> request.model,
   input |-> MessageContent(request),
   verbosity |-> request.verbosity,
   reasoning_effort |-> request.reasoning_effort,
   max_output_tokens |->
     IF Truthy(request.max_tokens) THEN request.max_tokens ELSE Undefined,
   temperature |-> request.temperature]

\* The argument of openai.chat.completions.create.
CreateArguments(request) ==
  [model |-> formatRequest(request).model,
   messages |-> formatRequest(request).input,
   max_tokens |-> formatRequest(request).max_output_tokens,
   temperature |-> formatRequest(request).temperature]

NoArguments ==
  [model |-> Undefined, messages |-> <<>>, max_tokens |-> Undefined,
   temperature |-> Undefined]

\* What the awaited create call does: it resolves with a completion
\* (content the text of the first choice, undefined when absent), rejects
\* with an OpenAI.APIError (status, message), rejects with another Error, or
\* rejects with a value that is no Error.
Completion(content, total) ==
  [kind |-> "completion", content |-> content, total_tokens |-> total,
   message |-> <<>>, status |-> Undefined]
APIError(status, message) ==
  [kind |-> "APIError", content |-> Undefined, total_tokens |-> 0,
   message |-> message, status |-> status]
OtherError(message) ==
  [kind |-> "Error", content |-> Undefined, total_tokens |-> 0,
   message |-> message, status |-> Undefined]
NonError ==
  [kind |-> "nonError", content |-> Undefined, total_tokens |-> 0,
   message |-> <<>>, status |-> Undefined]

\* query, from the point where the create call settles with outcome o.
querySettled(o) ==
  CASE o.kind = "completion" ->
         Return([output_text |-> Or(o.content, Str(<<>>)).x,
                 total_tokens |-> o.total_tokens])
    [] o.kind = "APIError" ->
         Throw(Error("GPT5ClientError",
                     Norm(Tok("OpenAI API Error: ") \o o.message), o.status))
    [] o.kind = "Error" ->
         Throw(Error("GPT5ClientError",
                     Norm(Tok("Unexpected error: ") \o o.message), Undefined))
    [] OTHER ->
         Throw(Error("GPT5ClientError",
                     Norm(Tok("Unexpected error: ") \o Tok("Unknown error")),
                     Undefined))

\* The probe request of testConnection.
TestRequest ==
  [prompt |-> Str(Tok("Hello, this is a connection test.")),
   context |-> Undefined,
   model |-> Str(Tok("gpt-5-nano")),
   verbosity |-> Str(Tok("low")),
   reasoning_effort |-> Str(Tok("minimal")),
   max_tokens |-> Num(10),
   temperature |-> Undefined]

\* The mutant: the error of the probe is thrown on.
testConnectionSettledRethrow(q) == IF q.ok THEN Return(TRUE) ELSE q

\* testConnection, from the point where its query settles with result q:
\* true from the try block, false from the catch block.
testConnectionSettled(q) == IF q.ok THEN Return(TRUE) ELSE Return(FALSE)

(***************************************************************************)
(* MessageProcessor.formatResponse                                         *)
(***************************************************************************)

\* content.toLowerCase(), on the words modelled.
Lower(c) == IF c = "FUNCTION" THEN "function" ELSE c

\* The indicators that end with a space, without it.
KeywordsBeforeSpace ==
  {"function", "class", "import", "const", "let", "var", "def", "public",
   "private", "select", "from"}

\* The characters and words [\w-] matches.
WordChars ==
  {"x", "-", "text", "FUNCTION", "include"} \cup KeywordsBeforeSpace

containsCode(content) ==
  \/ \E i \in 1..Len(content) : content[i].ch = "BT" /\ content[i].n >= 3
  \/ \E i \in 1..(Len(content) - 1) :
        /\ Lower(content[i].ch) \in KeywordsBeforeSpace
        /\ content[i + 1].ch = " "
  \/ \E i \in 1..(Len(content) - 1) :
        content[i].ch = "#" /\ Lower(content[i + 1].ch) = "include"

\* (formatted.match(/BT BT BT/g) || []).length, BT the backtick
RECURSIVE FenceCount(_)
FenceCount(t) ==
  IF t = <<>> THEN 0
  ELSE (IF Head(t).ch = "BT" THEN Head(t).n \div 3 ELSE 0) + FenceCount(Tail(t))

\* The first piece at or after i that [\w-] does not match.
RECURSIVE WordEnd(_, _)
WordEnd(t, i) ==
  IF i <= Len(t) /\ t[i].ch \in WordChars THEN WordEnd(t, i + 1) ELSE i

\* [\w-]+\n matches at the start of piece i.
LanguageTagAt(t, i) ==
  LET j == WordEnd(t, i) IN j > i /\ j <= Len(t) /\ t[j].ch = "\n"

\* /BT BT BT \n(?![\w-]+\n)/ matches at the last three backticks of piece i.
UnmarkedFenceAt(t, i) ==
  /\ t[i].ch = "BT" /\ t[i].n >= 3
  /\ i < Len(t) /\ t[i + 1].ch = "\n"
  /\ (t[i + 1].n >= 2 \/ ~LanguageTagAt(t, i + 2))

RECURSIVE AddLanguageHints(_, _)
AddLanguageHints(t, i) ==
  IF i > Len(t) THEN <<>>
  ELSE (IF UnmarkedFenceAt(t, i) THEN <<t[i], Run("text", 1)>> ELSE <<t[i]>>)
       \o AddLanguageHints(t, i + 1)

\* The mutant: an odd number of fences is left as it is.
formatCodeBlocksNoClose(content) == Norm(AddLanguageHints(content, 1))

formatCodeBlocks(content) ==
  LET closed == IF FenceCount(content) % 2 # 0
                THEN Concat(content, <<Run("\n", 1), Run("BT", 3)>>)
                ELSE content
  IN  Norm(AddLanguageHints(closed, 1))

\* formatted.replace(/\n\n\n+/g, '\n\n')
CollapseBlankLines(t) ==
  [i \in 1..Len(t) |->
     IF t[i].ch = "\n" /\ t[i].n >= 3 THEN Run("\n", 2) ELSE t[i]]

Header == <<Run("(robot) **GPT-5 Response**", 1), Run("\n", 2)>>
Placeholder == Tok("No response generated.")

formatResponseContent(content) ==
  IF content = <<>> THEN Placeholder
  ELSE LET trimmed == Trim(content)
           fenced == IF containsCode(trimmed) THEN formatCodeBlocks(trimmed)
                     ELSE trimmed
       IN  Concat(Header, CollapseBlankLines(fenced))

\* The timestamp and the processing time of the metadata are left out: the
\* handlers read content alone.
formatResponse(openaiResponse, originalRequest) ==
  [content |-> formatResponseContent(openaiResponse.output_text),
   metadata |-> [model |-> originalRequest.model,
                 tokens_used |-> openaiResponse.total_tokens,
                 model_fingerprint |-> "upstream"]]

(***************************************************************************)
(* MessageProcessor.createErrorResponse                                    *)
(***************************************************************************)

ErrorPrefix == "(cross) **Error**: "
ErrorHint == "Please check your OpenAI API key and try again."

ErrorContent(message) ==
  Norm(Tok(ErrorPrefix) \o message \o <<Run("\n", 2), Run(ErrorHint, 1)>>)

\* The mutant: originalRequest.model read without the optional chain, a
\* TypeError on null and undefined.
createErrorResponseNoOptionalChain(error, originalRequest) ==
  IF originalRequest.t \in {"undefined", "null"}
  THEN Throw(Error("TypeError", Tok("Cannot read properties of undefined"),
                   Undefined))
  ELSE Return([content |-> ErrorContent(error.message),
               metadata |-> [model |-> Or(originalRequest.model, Str(Tok("gpt-5"))),
                             tokens_used |-> 0,
                             model_fingerprint |-> "error"]])

\* originalRequest?.model is undefined on null and undefined, so that no
\* path of the function throws.
createErrorResponse(error, originalRequest) ==
  Return([content |-> ErrorContent(error.message),
          metadata |->
            [model |-> Or(IF originalRequest.t \in {"undefined", "null"}
                          THEN Undefined ELSE originalRequest.model,
                          Str(Tok("gpt-5"))),
             tokens_used |-> 0,
             model_fingerprint |-> "error"]])

(***************************************************************************)
(* server.ts: the handlers                                                 *)
(***************************************************************************)

Response(content, isError) == [content |-> content, isError |-> isError]
NoResponse == Response(<<>>, "absent")

\* The mutant: the next statement runs although the one before it threw.
AndThenAlways(prev, step, next) ==
  [steps |-> Append(prev.steps, [name |-> step, ok |-> next.ok]), r |-> next]

\* Two statements of a try block in sequence: the second one runs, and its
\* result stands, when the first one did not throw.
AndThen(prev, step, next) ==
  IF prev.r.ok
  THEN [steps |-> Append(prev.steps, [name |-> step, ok |-> next.ok]), r |-> next]
  ELSE prev

\* handleGPT5Query up to its await.
handleGPT5QueryBegin(args, cfg) ==
  LET s0 == [steps |-> <<>>, r |-> Return(NoRequest)]
      s1 == AndThen(s0, "validateRequest", validateRequest(args, cfg))
      s2 == AndThen(s1, "parse", SchemaParse(s1.r.value))
      s3 == AndThen(s2, "truncateIfNeeded", Return(truncateIfNeeded(s2.r.value)))
  IN  s3

\* handleGPT5Query from its await, the create call settled with outcome o.
handleGPT5QueryEnd(prev, o) ==
  LET s4 == AndThen(prev, "query", querySettled(o))
      s5 == AndThen(s4, "formatResponse",
                    IF s4.r.ok
                    THEN Return(formatResponse(s4.r.value, prev.r.value))
                    ELSE s4.r)
  IN  s5

\* The return of the try block and the catch block of handleGPT5Query.
handleGPT5QueryReturn(s, args) ==
  IF s.r.ok
  THEN Return(Response(s.r.value.content, "false"))
  ELSE LET e == createErrorResponse(s.r.error, args)
       IN  IF e.ok THEN Return(Response(e.value.content, "true"))
           ELSE Throw(e.error)

ConnectionSuccessMessage ==
  <<Run("(check) **GPT-5 Connection Successful**", 1), Run("\n", 2),
    Run("Available Models: gpt-5, gpt-5-mini, gpt-5-nano", 1)>>

ConnectionFailedMessage(message) ==
  Norm(<<Run("(cross) **GPT-5 Connection Failed**", 1), Run("\n", 2),
         Run("**Error**: ", 1)>> \o message
       \o <<Run("\n", 1), Run("**Possible causes**", 1)>>)

\* handleTestConnection from its await.
handleTestConnectionEnd(o) ==
  LET isConnected == testConnectionSettled(querySettled(o))
      thrown == IF isConnected.ok
                THEN Error("Error", Tok("Connection test failed"), Undefined)
                ELSE isConnected.error
  IN  IF isConnected.ok /\ isConnected.value
      THEN Return(Response(ConnectionSuccessMessage, "false"))
      ELSE Return(Response(ConnectionFailedMessage(thrown.message), "true"))

\* The try and catch of the CallToolRequestSchema handler around the
\* result r of the tool's handler.
CallToolReturn(name, args, r) ==
  IF r.ok THEN r
  ELSE LET e == createErrorResponse(
                  r.error,
                  IF name = "gpt5_query" THEN args ELSE Primitive(Undefined))
       IN  IF e.ok THEN Return(Response(e.value.content, "absent"))
           ELSE Throw(e.error)

\* The mutant: a failed create call is repeated max-retry-count times.
QueryAttemptsWithRetry(cfg) == 1 + cfg.maxRetries

\* The create calls query makes before it gives up: it holds no loop.
QueryAttempts(cfg) == 1

(***************************************************************************)
(* The server: the tool calls in flight.                                   *)
(***************************************************************************)

MaxCalls == 2
Calls == 1..MaxCalls

\* The configurations the server may hold after construction.  config.ts
\* checks neither the default model nor that the retry settings are used.
Configs ==
  {[defaultModel |-> m, maxRetries |-> r, retryDelay |-> 1000] :
     m \in {"gpt-5-nano", "gpt-4"}, r \in {0, 3}}

X(k) == <<Run("x", k)>>

\* The arguments of the gpt5_query calls.
QueryArgs ==
  { Primitive(Null),
    Primitive(Str(X(1))),
    Object(Undefined, Undefined, Str(Tok("gpt-5")), Undefined, Undefined,
           Undefined, Undefined),
    Object(Str(X(5)), Undefined, Undefined, Undefined, Undefined,
           Undefined, Undefined),
    Object(Str(<<Run(" ", 2)>>), Undefined, Undefined, Undefined, Undefined,
           Undefined, Undefined),
    Object(Str(<<Run(" ", 1), Run("x", 16 * SanitizeCap)>>), Str(X(3)),
           Str(Tok("gpt-5-mini")), Str(Tok("high")), Str(Tok("extended")),
           Num(0), Num(3)),
    Object(Str(X(2)), Undefined, Str(Tok("gpt-4")), Undefined, Undefined,
           Num(200000), Num(0)) }

\* What the create call may settle with.
Outcomes ==
  { Completion(Undefined, 0),
    Completion(Str(<<Run("x", 1), Run("\n", 3), Run("x", 1)>>), 30),
    Completion(Str(<<Run("BT", 3), Run("\n", 1), Run("function", 1),
                     Run(" ", 1), Run("x", 1)>>), 30),
    APIError(Num(401), Tok("Incorrect API key provided")),
    OtherError(Tok("Connection timed out")),
    NonError }

NoInput == [fn |-> "none", text |-> <<>>, raw |-> Primitive(Undefined)]
NoOutput == [done |-> FALSE, text |-> <<>>, result |-> Return(NoRequest)]

IdleCall ==
  [pc |-> "idle", tool |-> "", args |-> Primitive(Undefined),
   request |-> NoRequest, steps |-> <<>>, upstreamCalls |-> 0,
   sent |-> NoArguments, response |-> NoResponse, escaped |-> FALSE]

\* The call as the handler leaves it: r the result of CallToolReturn.
Returned(call, steps, r) ==
  [call EXCEPT !.pc = "done", !.steps = steps,
               !.response = IF r.ok THEN r.value ELSE NoResponse,
               !.escaped = ~r.ok]

Init ==
  /\ config \in Configs
  /\ calls = [c \in Calls |-> IdleCall]
  /\ input = NoInput
  /\ output = NoOutput

\* A gpt5_query call arrives: the handler runs to its await, or to its
\* return when validation, the schema or truncation throws.
CallToolQuery(c, args) ==
  /\ calls[c].pc = "idle"
  /\ LET s == handleGPT5QueryBegin(args, config)
         call == [calls[c] EXCEPT !.tool = "gpt5_query", !.args = args]
     IN  calls' = [calls EXCEPT ![c] =
           IF s.r.ok
           THEN [call EXCEPT !.pc = "awaiting", !.steps = s.steps,
                             !.request = s.r.value,
                             !.upstreamCalls = 1,
                             !.sent = CreateArguments(s.r.value)]
           ELSE Returned(call, s.steps,
                         CallToolReturn("gpt5_query", args,
                                        handleGPT5QueryReturn(s, args)))]
  /\ UNCHANGED <<config, input, output>>

\* A gpt5_test_connection call arrives: testConnection awaits its probe.
CallToolTestConnection(c, args) ==
  /\ calls[c].pc = "idle"
  /\ calls' = [calls EXCEPT ![c] =
       [@ EXCEPT !.pc = "awaiting", !.tool = "gpt5_test_connection",
                 !.args = args, !.request = TestRequest,
                 !.upstreamCalls = 1, !.sent = CreateArguments(TestRequest)]]
  /\ UNCHANGED <<config, input, output>>

\* A call names no tool of the server.
CallToolUnknown(c, name, args) ==
  /\ calls[c].pc = "idle"
  /\ calls' = [calls EXCEPT ![c] =
       Returned([@ EXCEPT !.tool = name, !.args = args], <<>>,
                CallToolReturn(name, args,
                  Throw(Error("Error", Norm(Tok("Unknown tool: ") \o Tok(name)),
                              Undefined))))]
  /\ UNCHANGED <<config, input, output>>

\* The mutant: the awaited result is kept in a field of the server, so that
\* every call in flight resumes with the outcome of call c.
UpstreamSettlesShared(c, o) ==
  /\ calls[c].pc = "awaiting"
  /\ calls' = [d \in Calls |->
       IF calls[d].pc = "awaiting"
       THEN Returned(calls[d], calls[d].steps,
                     CallToolReturn(calls[d].tool, calls[d].args,
                       IF calls[d].tool = "gpt5_query"
                       THEN handleGPT5QueryReturn(
                              handleGPT5QueryEnd(
                                [steps |-> calls[d].steps,
                                 r |-> Return(calls[d].request)], o),
                              calls[d].args)
                       ELSE handleTestConnectionEnd(o)))
       ELSE calls[d]]
  /\ UNCHANGED <<config, input, output>>

\* The create call of call c settles with outcome o and the handler runs to
\* its return.
UpstreamSettles(c, o) ==
  /\ calls[c].pc = "awaiting"
  /\ LET call == calls[c]
         s == handleGPT5QueryEnd(
                [steps |-> call.steps, r |-> Return(call.request)], o)
         r == IF call.tool = "gpt5_query"
              THEN handleGPT5QueryReturn(s, call.args)
              ELSE handleTestConnectionEnd(o)
     IN  calls' = [calls EXCEPT ![c] =
           IF o.kind # "completion" /\ call.upstreamCalls < QueryAttempts(config)
           THEN [call EXCEPT !.upstreamCalls = @ + 1]
           ELSE Returned(call,
                         IF call.tool = "gpt5_query" THEN s.steps ELSE call.steps,
                         CallToolReturn(call.tool, call.args, r))]
  /\ UNCHANGED <<config, input, output>>

Next ==
  \/ \E c \in Calls, a \in QueryArgs : CallToolQuery(c, a)
  \/ \E c \in Calls : CallToolTestConnection(c, Primitive(Undefined))
  \/ \E c \in Calls : CallToolUnknown(c, "gpt4_query", Primitive(Undefined))
  \/ \E c \in Calls, o \in Outcomes : UpstreamSettles(c, o)

Spec == Init /\ [][Next]_vars

(***************************************************************************)
(* sanitizeText applied to the texts of at most MaxRuns runs.              *)
(***************************************************************************)

MaxRuns == 3

SanitizeChars == {"x", " ", "\n", "\t", "NUL", "SOH"}
RunLengths == {1, SanitizeCap}
Runs == {Run(c, k) : c \in SanitizeChars, k \in RunLengths}

TextsOf(k) ==
  {t \in [1..k -> Runs] : \A i \in 1..(k - 1) : t[i].ch # t[i + 1].ch}
Texts == UNION {TextsOf(k) : k \in 0..MaxRuns}

InitSanitize ==
  /\ config \in {c \in Configs : c.defaultModel = "gpt-5-nano" /\ c.maxRetries = 3}
  /\ calls = [c \in Calls |-> IdleCall]
  /\ input \in {[NoInput EXCEPT !.fn = "sanitizeText", !.text = t] : t \in Texts}
  /\ output = NoOutput

ApplySanitize ==
  /\ input.fn = "sanitizeText"
  /\ ~output.done
  /\ output' = [output EXCEPT !.done = TRUE, !.text = sanitizeText(input.text)]
  /\ UNCHANGED <<config, calls, input>>

NextSanitize == ApplySanitize

SpecSanitize == InitSanitize /\ [][NextSanitize]_vars

Sanitized == input.fn = "sanitizeText" /\ output.done

(***************************************************************************)
(* validateRequest applied to raw requests.                                *)
(***************************************************************************)

PromptValues ==
  { Undefined, Num(5), Str(<<>>), Str(X(1)), Str(<<Run(" ", 2)>>),
    Str(<<Run(" ", 1), Run("x", 1), Run("\n", 1), Run("x", SanitizeCap),
          Run("SOH", 1)>>) }
ContextValues == {Undefined, Str(<<Run("x", 3), Run(" ", 1)>>), Num(1)}
ModelValues == {Undefined, Str(Tok("gpt-5-mini")), Str(Tok("gpt-4")), Num(7)}
VerbosityValues == {Undefined, Str(Tok("high"))}
ReasoningValues == {Undefined, Str(Tok("extended"))}
MaxTokensValues ==
  {Undefined, Str(Tok("10"))}
  \cup {Num(n) : n \in {-5, 0, 1, 1000, MaxOutputTokens, MaxOutputTokens + 1,
                        200000}}
TemperatureValues ==
  {Undefined, Null} \cup {Num(n) : n \in (MinTemperature - 1)..(MaxTemperature + 1)}

RawRequests ==
  { Primitive(v) :
      v \in {Undefined, Null, Num(0), Num(5), Str(<<>>), Str(X(1)),
             Bool(TRUE), Bool(FALSE), [t |-> "array", n |-> 0, x |-> <<>>]} }
  \cup
  { Object(p, c, m, vb, re, mt, tp) :
      p \in PromptValues, c \in ContextValues, m \in ModelValues,
      vb \in VerbosityValues, re \in ReasoningValues,
      mt \in MaxTokensValues, tp \in TemperatureValues }

InitValidate ==
  /\ config \in {c \in Configs : c.maxRetries = 3}
  /\ calls = [c \in Calls |-> IdleCall]
  /\ input \in {[NoInput EXCEPT !.fn = "validateRequest", !.raw = r] :
                  r \in RawRequests}
  /\ output = NoOutput

ApplyValidate ==
  /\ input.fn = "validateRequest"
  /\ ~output.done
  /\ output' = [output EXCEPT !.done = TRUE,
                              !.result = validateRequest(input.raw, config)]
  /\ UNCHANGED <<config, calls, input>>

NextValidate == ApplyValidate

SpecValidate == InitValidate /\ [][NextValidate]_vars

Validated == input.fn = "validateRequest" /\ output.done

(***************************************************************************)
(* truncateIfNeeded applied to requests around the limit of maxChars.      *)
(***************************************************************************)

MaxSlack == 3

\* The request an object of arguments holds.
RequestOf(raw) == [f \in DOMAIN NoRequest |-> raw[f]]

TruncatePromptLengths ==
  (1..MaxSlack)
  \cup {MaxPromptTokens * CharsPerToken + d : d \in (-MaxSlack)..MaxSlack}
TruncateContexts ==
  {Undefined}
  \cup {Str(IF k = 0 THEN <<>> ELSE <<Run("-", k)>>) :
          k \in (0..(2 * MaxSlack))
                \cup {MaxPromptTokens * CharsPerToken + d : d \in 0..1}}
TruncateRequests ==
  { Object(Str(X(p)), c, Str(Tok("gpt-5")), Str(Tok("medium")),
           Str(Tok("standard")), Undefined, Undefined) :
      p \in TruncatePromptLengths, c \in TruncateContexts }

InitTruncate ==
  /\ config \in {c \in Configs : c.defaultModel = "gpt-5-nano" /\ c.maxRetries = 3}
  /\ calls = [c \in Calls |-> IdleCall]
  /\ input \in {[NoInput EXCEPT !.fn = "truncateIfNeeded", !.raw = r] :
                  r \in TruncateRequests}
  /\ output = NoOutput

ApplyTruncate ==
  /\ input.fn = "truncateIfNeeded"
  /\ ~output.done
  /\ output' = [output EXCEPT
                  !.done = TRUE,
                  !.result = Return(truncateIfNeeded(RequestOf(input.raw)))]
  /\ UNCHANGED <<config, calls, input>>

NextTruncate == ApplyTruncate

SpecTruncate == InitTruncate /\ [][NextTruncate]_vars

Truncated == input.fn = "truncateIfNeeded" /\ output.done

(***************************************************************************)
(* formatResponse applied to response texts: every text of at most         *)
(* MaxPieces runs, and the texts made of a lead and at most MaxBlocks       *)
(* fenced blocks.                                                           *)
(***************************************************************************)

MaxPieces == 3
MaxBlocks == 1

FormatRuns ==
  { Run("x", 1), Run(" ", 1), Run("\n", 1), Run("\n", 3), Run("BT", 3),
    Run("BT", 1), Run("function", 1) }

FreeResponseTexts ==
  UNION { {t \in [1..k -> FormatRuns] :
             \A i \in 1..(k - 1) : t[i].ch # t[i + 1].ch} : k \in 0..MaxPieces }

FormatLeads ==
  { <<>>,
    <<Run("x", 1), Run("\n", 1)>>,
    <<Run("function", 1), Run(" ", 1), Run("x", 1), Run("\n", 1)>> }
FormatFences ==
  { <<Run("BT", 3), Run("\n", 1)>>,
    <<Run("BT", 3), Run("x", 1), Run("\n", 1)>>,
    <<Run("BT", 3), Run("\n", 2)>> }
FormatBodies ==
  { <<Run("x", 1), Run("\n", 1)>>,
    <<Run("x", 1), Run(" ", 1), Run("x", 1), Run("\n", 1)>>,
    <<Run("function", 1), Run(" ", 1), Run("x", 1), Run("\n", 1)>>,
    <<Run(" ", 2), Run("x", 1)>> }
FormatCloses ==
  { <<>>,
    <<Run("BT", 3)>>,
    <<Run("BT", 3), Run("\n", 1), Run("x", 1), Run("\n", 1)>>,
    <<Run("BT", 3), Run("\n", 1), Run("x", 1), Run(" ", 1), Run("x", 1),
      Run("\n", 1)>> }
FormatBlocks ==
  {f \o b \o c : f \in FormatFences, b \in FormatBodies, c \in FormatCloses}

RECURSIVE BlockTexts(_)
BlockTexts(k) ==
  IF k = 0 THEN {<<>>}
  ELSE {<<>>} \cup {b \o t : b \in FormatBlocks, t \in BlockTexts(k - 1)}

ResponseTexts ==
  FreeResponseTexts
  \cup {Norm(l \o t) : l \in FormatLeads, t \in BlockTexts(MaxBlocks)}

InitFormat ==
  /\ config \in {c \in Configs : c.defaultModel = "gpt-5-nano" /\ c.maxRetries = 3}
  /\ calls = [c \in Calls |-> IdleCall]
  /\ input \in {[NoInput EXCEPT !.fn = "formatResponse", !.text = t] :
                  t \in ResponseTexts}
  /\ output = NoOutput

ApplyFormat ==
  /\ input.fn = "formatResponse"
  /\ ~output.done
  /\ output' = [output EXCEPT
       !.done = TRUE,
       !.text = formatResponse([output_text |-> input.text, total_tokens |-> 10],
                               TestRequest).content]
  /\ UNCHANGED <<config, calls, input>>

NextFormat == ApplyFormat

SpecFormat == InitFormat /\ [][NextFormat]_vars

Formatted == input.fn = "formatResponse" /\ output.done

(***************************************************************************)
(* config.ts: loadConfiguration                                            *)
(***************************************************************************)

\* The number NaN: a number, falsy, for which every comparison is false.
NaN == [t |-> "number", n |-> 0, x |-> Tok("NaN")]
IsNaN(v) == v.t = "number" /\ v.x = Tok("NaN")

\* a < b and a > b on numbers
LessThan(a, b) == ~IsNaN(a) /\ ~IsNaN(b) /\ a.n < b.n
GreaterThan(a, b) == LessThan(b, a)

DigitChars == {"0", "1", "2", "3", "4", "5", "6", "7", "8", "9"}
DigitValue(c) ==
  CASE c = "0" -> 0 [] c = "1" -> 1 [] c = "2" -> 2 [] c = "3" -> 3
    [] c = "4" -> 4 [] c = "5" -> 5 [] c = "6" -> 6 [] c = "7" -> 7
    [] c = "8" -> 8 [] c = "9" -> 9

\* acc followed by k times the digit d, in radix 10.
RECURSIVE AppendDigits(_, _, _)
AppendDigits(acc, d, k) ==
  IF k = 0 THEN acc ELSE AppendDigits(acc * 10 + d, d, k - 1)

\* The value of the longest prefix of digits of t from piece i on.
RECURSIVE DigitsValue(_, _, _)
DigitsValue(t, i, acc) ==
  IF i <= Len(t) /\ t[i].ch \in DigitChars
  THEN DigitsValue(t, i + 1, AppendDigits(acc, DigitValue(t[i].ch), t[i].n))
  ELSE acc

\* parseInt(text): white space is skipped, then a sign, then the digits up to
\* the first other character; NaN without a digit.
parseInt(text) ==
  LET t == TrimStart(text)
      signed == t # <<>> /\ t[1].ch \in {"-", "+"} /\ t[1].n = 1
      first == IF signed THEN 2 ELSE 1
  IN  IF first <= Len(t) /\ t[first].ch \in DigitChars
      THEN Num((IF signed /\ t[1].ch = "-" THEN -1 ELSE 1)
               * DigitsValue(t, first, 0))
      ELSE NaN

\* text.startsWith(prefix)
StartsWith(text, prefix) ==
  /\ prefix # <<>>
  /\ Len(text) >= Len(prefix)
  /\ \A i \in 1..(Len(prefix) - 1) : text[i] = prefix[i]
  /\ text[Len(prefix)].ch = prefix[Len(prefix)].ch
  /\ text[Len(prefix)].n >= prefix[Len(prefix)].n

ConfigurationError(message) == Error("ConfigurationError", message, Undefined)

\* loadDefaultConfig: the content of config/default.json, or the defaults of
\* the catch block when the file cannot be read.
NoFile == [exists |-> FALSE]
HardcodedDefaults ==
  [openai |-> [apiKey |-> Str(<<>>), baseURL |-> Undefined,
               defaultModel |-> Str(Tok("gpt-5")), timeout |-> Num(60000)],
   server |-> [name |-> Str(Tok("gpt5-claude-mcp")),
               version |-> Str(Tok("1.0.0")),
               maxRetries |-> Num(3), retryDelay |-> Num(1000)],
   logging |-> [level |-> Str(Tok("info")),
                logRequests |-> Bool(FALSE), logResponses |-> Bool(FALSE)]]
loadDefaultConfig(file) == IF file.exists THEN file.content ELSE HardcodedDefaults

getRequiredEnvVar(env, name) ==
  IF ~Truthy(env[name])
  THEN Throw(ConfigurationError(
         Norm(Tok("Required environment variable ") \o Tok(name)
              \o Tok(" is not set. "))))
  ELSE Return(env[name])

MinTimeout == 1000
MaxRetriesLimit == 10
MinRetryDelay == 100
ValidLogLevels == {"debug", "info", "warn", "error"}

validateConfiguration(cfg) ==
  CASE ~Truthy(cfg.openai.apiKey) ->
         Throw(ConfigurationError(Tok("OpenAI API key is required")))
    [] ~StartsWith(cfg.openai.apiKey.x,
                   <<Run("s", 1), Run("k", 1), Run("-", 1)>>) ->
         Throw(ConfigurationError(Tok("OpenAI API key appears to be invalid")))
    [] LessThan(cfg.openai.timeout, Num(MinTimeout)) ->
         Throw(ConfigurationError(Tok("OpenAI timeout must be at least 1000ms")))
    [] ~Truthy(cfg.server.name) ->
         Throw(ConfigurationError(Tok("Server name is required")))
    [] ~Truthy(cfg.server.version) ->
         Throw(ConfigurationError(Tok("Server version is required")))
    [] LessThan(cfg.server.maxRetries, Num(0))
       \/ GreaterThan(cfg.server.maxRetries, Num(MaxRetriesLimit)) ->
         Throw(ConfigurationError(Tok("Max retries must be between 0 and 10")))
    [] LessThan(cfg.server.retryDelay, Num(MinRetryDelay)) ->
         Throw(ConfigurationError(Tok("Retry delay must be at least 100ms")))
    [] \A l \in ValidLogLevels : cfg.logging.level # Str(Tok(l)) ->
         Throw(ConfigurationError(Tok("Log level must be one of")))
    [] OTHER -> Return(cfg)

\* loadConfiguration under the environment env and the configuration file.
\* Every error of the try block is thrown again as a ConfigurationError.
loadConfiguration(env, file) ==
  LET defaultConfig == loadDefaultConfig(file)
      apiKey == getRequiredEnvVar(env, "OPENAI_API_KEY")
      serverConfig ==
        [openai |->
           [apiKey |-> apiKey.value,
            baseURL |-> env.OPENAI_BASE_URL,
            defaultModel |->
              Or(env.GPT5_DEFAULT_MODEL, defaultConfig.openai.defaultModel),
            timeout |->
              parseInt(Or(env.OPENAI_TIMEOUT, Str(<<Run("6", 1), Run("0", 4)>>)).x)],
         server |->
           [name |-> Or(env.SERVER_NAME, defaultConfig.server.name),
            version |-> defaultConfig.server.version,
            maxRetries |-> parseInt(Or(env.MAX_RETRIES, Str(Tok("3"))).x),
            retryDelay |->
              parseInt(Or(env.RETRY_DELAY, Str(<<Run("1", 1), Run("0", 3)>>)).x)],
         logging |->
           [level |-> Or(env.LOG_LEVEL, defaultConfig.logging.level),
            logRequests |-> Bool(env.LOG_REQUESTS = Str(Tok("true"))),
            logResponses |-> Bool(env.LOG_RESPONSES = Str(Tok("true")))]]
      validated == IF apiKey.ok THEN validateConfiguration(serverConfig)
                   ELSE apiKey
  IN  IF validated.ok THEN Return(serverConfig)
      ELSE Throw(ConfigurationError(
             Norm(Tok("Failed to load configuration: ")
                  \o validated.error.message)))

(***************************************************************************)
(* loadConfiguration applied to environments and configuration files.      *)
(***************************************************************************)

ApiKeyValues ==
  { Undefined, Str(<<>>),
    Str(<<Run("s", 1), Run("k", 1), Run("-", 1), Run("x", 3)>>),
    Str(<<Run("s", 1), Run("k", 1), Run("x", 3)>>),
    Str(<<Run("x", 1), Run("s", 1), Run("k", 1), Run("-", 1)>>) }
DefaultModelValues ==
  {Undefined, Str(<<>>), Str(Tok("gpt-5-mini")), Str(Tok("gpt-4"))}
TimeoutValues ==
  { Undefined,
    Str(<<Run("9", 3)>>),
    Str(<<Run("1", 1), Run("0", 3)>>),
    Str(<<Run("5", 1), Run("0", 3), Run("ms", 1)>>),
    Str(Tok("abc")) }
MaxRetriesValues ==
  { Undefined, Str(<<Run("-", 1), Run("1", 1)>>), Str(Tok("0")),
    Str(<<Run("1", 1), Run("0", 1)>>), Str(<<Run("1", 2)>>), Str(Tok("abc")) }
RetryDelayValues ==
  { Undefined, Str(<<Run("9", 2)>>), Str(<<Run("1", 1), Run("0", 2)>>),
    Str(Tok("abc")) }
LogLevelValues ==
  {Undefined, Str(<<>>), Str(Tok("debug")), Str(Tok("verbose"))}
ServerNameValues == {Undefined, Str(<<>>), Str(Tok("my-server"))}

Environments ==
  { [OPENAI_API_KEY |-> k, OPENAI_BASE_URL |-> Undefined,
     GPT5_DEFAULT_MODEL |-> m, OPENAI_TIMEOUT |-> t, SERVER_NAME |-> sn,
     MAX_RETRIES |-> r, RETRY_DELAY |-> d, LOG_LEVEL |-> l,
     LOG_REQUESTS |-> Str(Tok("true")), LOG_RESPONSES |-> Undefined] :
      k \in ApiKeyValues, m \in DefaultModelValues, t \in TimeoutValues,
      sn \in ServerNameValues, r \in MaxRetriesValues, d \in RetryDelayValues,
      l \in LogLevelValues }

ConfigFiles ==
  { NoFile,
    [exists |-> TRUE,
     content |->
       [openai |-> [apiKey |-> Str(<<>>),
                    baseURL |-> Str(Tok("https://proxy.example/v1")),
                    defaultModel |-> Str(Tok("gpt-5-nano")),
                    timeout |-> Num(30000)],
        server |-> [name |-> Str(Tok("file-server")),
                    version |-> Str(Tok("2.0.0")),
                    maxRetries |-> Num(5), retryDelay |-> Num(2000)],
        logging |-> [level |-> Str(Tok("warn")),
                     logRequests |-> Bool(TRUE), logResponses |-> Bool(TRUE)]]],
    [exists |-> TRUE,
     content |->
       [openai |-> [apiKey |-> Str(<<>>), baseURL |-> Undefined,
                    defaultModel |-> Str(Tok("gpt-4")), timeout |-> Num(60000)],
        server |-> [name |-> Str(<<>>), version |-> Str(<<>>),
                    maxRetries |-> Num(3), retryDelay |-> Num(1000)],
        logging |-> [level |-> Str(Tok("trace")),
                     logRequests |-> Bool(FALSE), logResponses |-> Bool(FALSE)]]] }

InitConfig ==
  /\ config \in {c \in Configs : c.defaultModel = "gpt-5-nano" /\ c.maxRetries = 3}
  /\ calls = [c \in Calls |-> IdleCall]
  /\ input \in {[NoInput EXCEPT !.fn = "loadConfiguration",
                                !.raw = [env |-> e, file |-> f]] :
                  e \in Environments, f \in ConfigFiles}
  /\ output = NoOutput

ApplyConfig ==
  /\ input.fn = "loadConfiguration"
  /\ ~output.done
  /\ output' = [output EXCEPT
       !.done = TRUE,
       !.result = loadConfiguration(input.raw.env, input.raw.file)]
  /\ UNCHANGED <<config, calls, input>>

NextConfig == ApplyConfig

SpecConfig == InitConfig /\ [][NextConfig]_vars

Loaded == input.fn = "loadConfiguration" /\ output.done

(***************************************************************************)
(* server.ts: the module entry point, the constructor and start.  The      *)
(* process is the record output.result: pc is where it stands, log the      *)
(* lines written to the console, probes the connectivity probes made.       *)
(***************************************************************************)

ConfigurationHint ==
  "Please check your environment variables and configuration files."
ClientHint == "Please check your OpenAI API key and network connectivity."
ProbeWarning == "Warning: Could not connect to GPT-5 API on startup"

NoProcess ==
  [pc |-> "entry", exitCode |-> -1, exitedAt |-> "", log |-> <<>>, probes |-> 0,
   isConnected |-> "unknown", error |-> NoError]

\* process.exit(code) at pc
Exit(proc, code) ==
  [proc EXCEPT !.exitedAt = proc.pc, !.pc = "exited", !.exitCode = code]

\* new GPT5Client(config)
GPT5ClientConstructor(cfg) ==
  IF ~Truthy(cfg.openai.apiKey)
  THEN Throw(Error("GPT5ClientError", Tok("OpenAI API key is required"),
                   Undefined))
  ELSE Return(cfg)

\* new GPT5MCPServer()
GPT5MCPServerConstructor(env, file) ==
  LET loaded == loadConfiguration(env, file)
  IN  IF loaded.ok THEN GPT5ClientConstructor(loaded.value) ELSE loaded

\* The catch block of start.
StartCatch(proc, error) ==
  Exit([proc EXCEPT
          !.error = error,
          !.log = @ \o <<"Failed to start GPT-5 MCP Server">>
                    \o (CASE error.name = "ConfigurationError" ->
                               <<"Configuration Error", ConfigurationHint>>
                           [] error.name = "GPT5ClientError" ->
                               <<"GPT-5 Client Error", ClientHint>>
                           [] OTHER -> <<>>)],
       1)

\* The entry point constructs the server outside every try block: an error
\* of the constructor is an uncaught exception, which the runtime reports
\* before it ends the process with status 1.
EntryPoint ==
  /\ input.fn = "main"
  /\ output.result.pc = "entry"
  /\ LET proc == output.result
         built == GPT5MCPServerConstructor(input.raw.env, input.raw.file)
     IN  output' = [output EXCEPT !.result =
           IF built.ok THEN [proc EXCEPT !.pc = "constructed"]
           ELSE Exit([proc EXCEPT !.error = built.error,
                                  !.log = @ \o <<"Uncaught exception">>], 1)]
  /\ UNCHANGED <<config, calls, input>>

\* start, to the await of testConnection.
StartBegin ==
  /\ output.result.pc = "constructed"
  /\ output' = [output EXCEPT !.result =
       [@ EXCEPT !.pc = "probing", !.probes = @ + 1,
                 !.log = @ \o <<"Starting GPT-5 MCP Server...">>]]
  /\ UNCHANGED <<config, calls, input>>

\* The mutant: a failed probe ends the process.
ProbeSettlesAbort(o) ==
  /\ output.result.pc = "probing"
  /\ LET proc == output.result
         isConnected == testConnectionSettled(querySettled(o))
     IN  output' = [output EXCEPT !.result =
           IF isConnected.ok /\ isConnected.value
           THEN [proc EXCEPT !.pc = "connecting", !.isConnected = "true",
                             !.log = @ \o <<"GPT-5 API connection verified">>]
           ELSE StartCatch([proc EXCEPT !.isConnected = "false"],
                  Error("GPT5ClientError", Tok("Connection test failed"),
                        Undefined))]
  /\ UNCHANGED <<config, calls, input>>

\* The create call of the probe settles with outcome o: start logs the
\* result and goes on to connect.
ProbeSettles(o) ==
  /\ output.result.pc = "probing"
  /\ LET proc == output.result
         isConnected == testConnectionSettled(querySettled(o))
     IN  output' = [output EXCEPT !.result =
           IF ~isConnected.ok THEN StartCatch(proc, isConnected.error)
           ELSE IF isConnected.value
           THEN [proc EXCEPT !.pc = "connecting", !.isConnected = "true",
                             !.log = @ \o <<"GPT-5 API connection verified">>]
           ELSE [proc EXCEPT !.pc = "connecting", !.isConnected = "false",
                             !.log = @ \o <<ProbeWarning>>]]
  /\ UNCHANGED <<config, calls, input>>

\* server.connect(transport) resolves, or rejects with an error of the
\* transport.
ConnectSettles(connected) ==
  /\ output.result.pc = "connecting"
  /\ output' = [output EXCEPT !.result =
       IF connected
       THEN [@ EXCEPT !.pc = "serving",
                      !.log = @ \o <<"GPT-5 MCP Server started successfully">>]
       ELSE StartCatch(@, Error("Error", Tok("transport failed"), Undefined))]
  /\ UNCHANGED <<config, calls, input>>

\* SIGINT or SIGTERM, once the entry point has installed the handlers.
Signal ==
  /\ output.result.pc \in {"constructed", "probing", "connecting", "serving"}
  /\ output' = [output EXCEPT !.result =
       Exit([@ EXCEPT !.log = @ \o <<"Shutting down GPT-5 MCP Server...">>], 0)]
  /\ UNCHANGED <<config, calls, input>>

StartupEnvironments ==
  { e \in Environments :
      /\ e.GPT5_DEFAULT_MODEL = Undefined /\ e.SERVER_NAME = Undefined
      /\ e.MAX_RETRIES = Undefined /\ e.LOG_LEVEL = Undefined }

InitStartup ==
  /\ config \in {c \in Configs : c.defaultModel = "gpt-5-nano" /\ c.maxRetries = 3}
  /\ calls = [c \in Calls |-> IdleCall]
  /\ input \in {[NoInput EXCEPT !.fn = "main", !.raw = [env |-> e, file |-> f]] :
                  e \in StartupEnvironments, f \in ConfigFiles}
  /\ output = [NoOutput EXCEPT !.result = NoProcess]

NextStartup ==
  \/ EntryPoint
  \/ StartBegin
  \/ \E o \in Outcomes : ProbeSettles(o)
  \/ \E connected \in BOOLEAN : ConnectSettles(connected)
  \/ Signal

SpecStartup == InitStartup /\ [][NextStartup]_vars

(***************************************************************************)
(* server.ts: the ListToolsRequestSchema handler                           *)
(***************************************************************************)

\* The input schema of gpt5_query that the handler returns, property by
\* property: the enumeration or the range, and the default where one is
\* given.
ListToolsInputSchema ==
  [prompt |-> [type |-> "string", default |-> Undefined],
   context |-> [type |-> "string", default |-> Undefined],
   model |-> [type |-> "string", enum |-> GPT5_MODELS,
              default |-> Str(Tok("gpt-5"))],
   verbosity |-> [type |-> "string", enum |-> VERBOSITY_LEVELS,
                  default |-> Str(Tok("medium"))],
   reasoning_effort |-> [type |-> "string", enum |-> REASONING_EFFORT_LEVELS,
                         default |-> Str(Tok("standard"))],
   max_tokens |-> [type |-> "number", minimum |-> MinOutputTokens,
                   maximum |-> MaxOutputTokens, default |-> Undefined],
   temperature |-> [type |-> "number", minimum |-> MinTemperature,
                    maximum |-> MaxTemperature, default |-> Undefined]]

(***************************************************************************)
(* The claims.                                                             *)
(***************************************************************************)

\* C1: every tool call that has run to its return (gpt5_query with any
\* arguments, gpt5_test_connection, under any upstream outcome) returned a
\* response that holds a text block, and no exception left the handler.
C1_HandlerAlwaysReturnsText ==
  \A c \in Calls :
    /\ ~calls[c].escaped
    /\ calls[c].pc = "done" =>
         /\ calls[c].response # NoResponse
         /\ calls[c].response.content # <<>>

\* A gpt5_query call with null arguments has returned its error text.
C1_Witness ==
  \E c \in Calls :
    /\ calls[c].pc = "done" /\ calls[c].tool = "gpt5_query"
    /\ calls[c].args.t = "null"
    /\ calls[c].response.content = ErrorContent(Tok(MsgNotObject))

PipelineOrder ==
  <<"validateRequest", "parse", "truncateIfNeeded", "query", "formatResponse">>

AllStepsOk(call) ==
  Len(call.steps) = Len(PipelineOrder) /\ \A i \in 1..Len(call.steps) : call.steps[i].ok

\* C2: in every gpt5_query call the steps run in the order validate, (schema
\* parse,) truncateIfNeeded, upstream query, format; a step runs only when
\* every step before it succeeded, so the upstream call is made only after
\* validation and truncation succeeded and format runs only after the
\* upstream call returned; a call in which a step failed returns the error
\* response, and a call in which none failed the formatted response.
C2_PipelineOrder ==
  \A c \in Calls :
    calls[c].tool = "gpt5_query" =>
      LET call == calls[c] IN
      /\ Len(call.steps) <= Len(PipelineOrder)
      /\ \A i \in 1..Len(call.steps) : call.steps[i].name = PipelineOrder[i]
      /\ \A i \in 1..(Len(call.steps) - 1) : call.steps[i].ok
      /\ call.upstreamCalls > 0 =>
           /\ Len(call.steps) >= 3
           /\ validateRequest(call.args, config).ok
      /\ call.pc = "awaiting" => Len(call.steps) = 3 /\ call.steps[3].ok
      /\ call.pc = "done" =>
           IF AllStepsOk(call)
           THEN call.response.isError = "false"
                /\ call.response.content[1] # Run(ErrorPrefix, 1)
           ELSE /\ Len(call.steps) >= 1
                /\ ~call.steps[Len(call.steps)].ok
                /\ call.response.isError = "true"
                /\ call.response.content[1] = Run(ErrorPrefix, 1)

\* A gpt5_query call whose upstream call failed has returned the error
\* response without running format.
C2_Witness ==
  \E c \in Calls :
    /\ calls[c].tool = "gpt5_query" /\ calls[c].pc = "done"
    /\ Len(calls[c].steps) = 4 /\ ~calls[c].steps[4].ok
    /\ calls[c].response.isError = "true"

IsJsObject(v) == v.t \in {"object", "array"}

\* C4: validateRequest fails with "Invalid request: must be an object" on
\* every input that is not an object (null included), and with "Invalid
\* request: prompt is required and must be a string" on every object whose
\* prompt is missing or is not a string.
C4_ValidateMessages ==
  Validated =>
    /\ ~IsJsObject(input.raw) =>
         /\ ~output.result.ok
         /\ output.result.error.message = Tok(MsgNotObject)
    /\ (IsJsObject(input.raw) /\ input.raw.prompt.t # "string") =>
         /\ ~output.result.ok
         /\ output.result.error.message = Tok(MsgNoPrompt)

\* validateRequest has rejected null.
C4_Witness ==
  /\ Validated /\ input.raw.t = "null"
  /\ output.result.error.message = Tok(MsgNotObject)

\* C5: for every numeric max_tokens, validateRequest returns 128000 for a
\* value above 128000 and 1 for a value below 1, 0 included.
C5_MaxTokensClamped ==
  (Validated /\ output.result.ok /\ input.raw.max_tokens.t = "number") =>
    /\ input.raw.max_tokens.n > MaxOutputTokens =>
         output.result.value.max_tokens = Num(MaxOutputTokens)
    /\ input.raw.max_tokens.n < MinOutputTokens =>
         output.result.value.max_tokens = Num(MinOutputTokens)

\* C6: for every numeric temperature, validateRequest returns 2 for a value
\* above 2, 0 for a value below 0, and a value of [0, 2], 0 included,
\* unchanged.
C6_TemperatureClamped ==
  (Validated /\ output.result.ok /\ input.raw.temperature.t = "number") =>
    LET v == input.raw.temperature.n IN
    /\ v > MaxTemperature => output.result.value.temperature = Num(MaxTemperature)
    /\ v < MinTemperature => output.result.value.temperature = Num(MinTemperature)
    /\ (MinTemperature <= v /\ v <= MaxTemperature) =>
         output.result.value.temperature = Num(v)

\* validateRequest has brought a temperature of 3 down to 2.
C6_Witness ==
  /\ Validated /\ output.result.ok
  /\ input.raw.temperature = Num(MaxTemperature + 1)
  /\ output.result.value.temperature = Num(MaxTemperature)

\* C7: the request validateRequest returns has a prompt that is present
\* and not empty.
C7_PromptNonEmpty ==
  (Validated /\ output.result.ok) =>
    /\ output.result.value.prompt.t = "string"
    /\ Length(output.result.value.prompt.x) >= 1

\* C8: for every object with a valid prompt, validateRequest fills an
\* absent model with the configured default model, an absent verbosity with
\* "medium", an absent reasoning_effort with "standard", and the result has
\* no context, max_tokens or temperature where the input had none.
C8_Defaults ==
  (Validated /\ output.result.ok) =>
    LET raw == input.raw
        req == output.result.value
    IN  /\ raw.model.t = "undefined" => req.model = Str(Tok(config.defaultModel))
        /\ raw.verbosity.t = "undefined" => req.verbosity = Str(Tok("medium"))
        /\ raw.reasoning_effort.t = "undefined" =>
             req.reasoning_effort = Str(Tok("standard"))
        /\ raw.context.t = "undefined" => req.context = Undefined
        /\ raw.max_tokens.t = "undefined" => req.max_tokens = Undefined
        /\ raw.temperature.t = "undefined" => req.temperature = Undefined

\* validateRequest has returned the request of an input holding a prompt
\* alone: the prompt, the three defaults and nothing else.
C8_Witness ==
  /\ Validated /\ output.result.ok
  /\ input.raw = Object(Str(X(1)), Undefined, Undefined, Undefined, Undefined,
                        Undefined, Undefined)
  /\ output.result.value =
       [NoRequest EXCEPT !.prompt = Str(X(1)),
                         !.model = Str(Tok(config.defaultModel)),
                         !.verbosity = Str(Tok("medium")),
                         !.reasoning_effort = Str(Tok("standard"))]

\* C9: sanitizing a sanitized text returns it unchanged.
C9_SanitizeIdempotent ==
  Sanitized => sanitizeText(output.text) = output.text

Has(t, c) == \E i \in 1..Len(t) : t[i].ch = c

\* C10: sanitizeText removes the null byte and the other control characters
\* and keeps a newline or a tab that stands inside the text, between two
\* ordinary characters (of a text within the length cap).
C10_SanitizeKeepsProseControls ==
  Sanitized =>
    /\ ~Has(output.text, "NUL") /\ ~Has(output.text, "SOH")
    /\ \A i \in 2..(Len(input.text) - 1) :
         (/\ input.text[i].ch \in {"\n", "\t"}
          /\ input.text[i - 1].ch = "x" /\ input.text[i + 1].ch = "x"
          /\ Length(input.text) <= SanitizeCap)
           => Has(output.text, input.text[i].ch)

\* C11: truncateIfNeeded returns a request whose estimate
\* ceil((len(prompt) + len(context)) / 4) is at most 380000 unchanged.  Above
\* it, a present context is cut before the prompt: with the prompt alone
\* within 1520000 characters the prompt is unchanged and the context is cut,
\* a cut prompt implies a cut context, and every field that was cut is a
\* prefix of the original followed by the marker "...[truncated]".
IsCut(before, after) ==
  /\ after # before
  /\ after.t = "string"
  /\ after.x # <<>>
  /\ after.x[Len(after.x)] = Run(TruncationMarker, 1)
  /\ LET kept == SubSeq(after.x, 1, Len(after.x) - 1)
     IN  /\ Length(kept) < Length(before.x)
         /\ kept = Substring0(before.x, Length(kept))

C11_TruncateContextFirst ==
  Truncated =>
    LET req == RequestOf(input.raw)
        res == output.result.value
        len == Length(req.prompt.x)
               + (IF req.context.t = "string" THEN Length(req.context.x) ELSE 0)
        estimate == (len + 3) \div 4
        present == req.context.t = "string" /\ req.context.x # <<>>
    IN  /\ estimate <= 380000 => res = req
        /\ estimate > 380000 =>
             /\ \A f \in DOMAIN req \ {"prompt", "context"} : res[f] = req[f]
             /\ res.prompt # req.prompt => IsCut(req.prompt, res.prompt)
             /\ res.context # req.context => IsCut(req.context, res.context)
             /\ present /\ res.prompt # req.prompt => res.context # req.context
             /\ present /\ Length(req.prompt.x) <= 1520000 =>
                  res.prompt = req.prompt /\ IsCut(req.context, res.context)

\* A request over the limit whose prompt alone fits: the context was cut.
C11_Witness ==
  /\ Truncated
  /\ Length(input.raw.prompt.x) + Length(input.raw.context.x) > 1520000
  /\ Length(input.raw.prompt.x) <= 1520000
  /\ output.result.value.prompt = input.raw.prompt
  /\ IsCut(input.raw.context, output.result.value.context)

\* C12: the create call of every gpt5_query call that reached its upstream
\* call carries the model, the verbosity and the reasoning_effort of the
\* validated request, its max_tokens when present and its temperature when
\* present.
Carried(arguments, f) ==
  IF f \in DOMAIN arguments THEN arguments[f] ELSE Undefined

C12_UpstreamCarriesRequest ==
  \A c \in Calls :
    calls[c].tool = "gpt5_query" /\ calls[c].upstreamCalls > 0 =>
      LET request == calls[c].request
          sent == calls[c].sent
      IN  /\ Carried(sent, "model") = request.model
          /\ Carried(sent, "verbosity") = request.verbosity
          /\ Carried(sent, "reasoning_effort") = request.reasoning_effort
          /\ request.max_tokens.t # "undefined" =>
               Carried(sent, "max_tokens") = request.max_tokens
          /\ request.temperature.t # "undefined" =>
               Carried(sent, "temperature") = request.temperature

\* C13: for a response whose text is empty, formatResponse returns the
\* display header followed by the placeholder "No response generated.".
C13_EmptyResponseHasHeader ==
  Formatted /\ input.text = <<>> =>
    output.text = Header \o <<Run("No response generated.", 1)>>

\* C14: for every response text holding an odd number of triple-backtick
\* markers, the content returned holds one marker more, an even number: it
\* ends with the closing fence appended on a line of its own.
C14_OddFencesClosed ==
  Formatted /\ FenceCount(input.text) % 2 = 1 =>
    /\ FenceCount(output.text) = FenceCount(input.text) + 1
    /\ FenceCount(output.text) % 2 = 0
    /\ Len(output.text) >= 2
    /\ output.text[Len(output.text)] = Run("BT", 3)
    /\ output.text[Len(output.text) - 1] = Run("\n", 1)

\* A text with one fence, open to its end, was formatted.
C14_Witness ==
  /\ Formatted
  /\ FenceCount(input.text) = 1
  /\ \E i \in 1..(Len(input.text) - 1) :
        input.text[i] = Run("BT", 3) /\ input.text[i + 1].ch # "BT"
  /\ FenceCount(output.text) = 2

\* C15: for every response text that contains "function " and an opening
\* fence with no language tag (three backticks, then a newline), the same
\* fence of the content returned is followed by the tag "text", whatever the
\* first line of the fenced code is.
FenceRuns(t) == {i \in 1..Len(t) : t[i].ch = "BT" /\ t[i].n >= 3}
FenceOrdinal(t, i) == Cardinality({j \in FenceRuns(t) : j <= i})

C15_OpeningFenceTagged ==
  Formatted
  /\ (\E i \in 1..(Len(input.text) - 1) :
        input.text[i].ch = "function" /\ input.text[i + 1].ch = " ") =>
    \A i \in FenceRuns(input.text) :
      /\ input.text[i].n = 3
      /\ FenceCount(SubSeq(input.text, 1, i - 1)) % 2 = 0
      /\ i + 1 < Len(input.text)
      /\ input.text[i + 1].ch = "\n"
      => \E j \in FenceRuns(output.text) :
            /\ FenceOrdinal(output.text, j) = FenceOrdinal(input.text, i)
            /\ j < Len(output.text)
            /\ output.text[j + 1] = Run("text", 1)

\* C16: when the create call of a gpt5_query call rejects with an API error
\* of status s and message m, the error text the call returns holds m and
\* the decimal text of s.
Embeds(text, part) ==
  \E i \in 1..(Len(text) - Len(part) + 1) :
    SubSeq(text, i, i + Len(part) - 1) = part

C16_ApiErrorTextHasStatus ==
  [][\A c \in Calls, o \in Outcomes :
       UpstreamSettles(c, o) /\ calls[c].tool = "gpt5_query"
       /\ o.kind = "APIError" =>
         /\ calls'[c].response.isError = "true"
         /\ Embeds(calls'[c].response.content, o.message)
         /\ Embeds(calls'[c].response.content, Tok(ToString(o.status.n)))]_vars

\* C17: testConnection returns true when the create call of its probe
\* resolves and false when it rejects, with an API error, another error or
\* a value that is no error; it throws in neither case, so that the
\* gpt5_test_connection call reports the fixed failure "Connection test
\* failed".
C17_TestConnectionNeverThrows ==
  [][\A c \in Calls, o \in Outcomes :
       UpstreamSettles(c, o) /\ calls[c].tool = "gpt5_test_connection" =>
         LET isConnected == testConnectionSettled(querySettled(o))
         IN  /\ isConnected.ok
             /\ isConnected.value = (o.kind = "completion")
             /\ calls'[c].pc = "done" /\ ~calls'[c].escaped
             /\ calls'[c].response.content =
                  IF o.kind = "completion" THEN ConnectionSuccessMessage
                  ELSE ConnectionFailedMessage(Tok("Connection test failed"))]_vars

\* Two gpt5_test_connection calls have returned, one with the success
\* message and one with the failure message.
C17_Witness ==
  \E c, d \in Calls :
    /\ calls[c].tool = "gpt5_test_connection" /\ calls[c].pc = "done"
    /\ calls[d].tool = "gpt5_test_connection" /\ calls[d].pc = "done"
    /\ calls[c].response = Response(ConnectionSuccessMessage, "false")
    /\ calls[d].response.isError = "true"

\* C18: with gpt5_query calls in flight at the same time, in any
\* interleaving, a step changes one call alone and never the configuration; a
\* call that has returned is not changed again; a call resumed from its
\* await keeps its arguments, its request and what it sent upstream, and
\* returns the response the handler gives for its own arguments and one
\* outcome of its own create call.
SoloResponse(tool, args, o) ==
  IF tool = "gpt5_query"
  THEN CallToolReturn(tool, args,
         handleGPT5QueryReturn(
           handleGPT5QueryEnd(handleGPT5QueryBegin(args, config), o), args)).value
  ELSE CallToolReturn(tool, args, handleTestConnectionEnd(o)).value

C18_CallsIndependent ==
  [][/\ config' = config
     /\ Cardinality({c \in Calls : calls'[c] # calls[c]}) <= 1
     /\ \A c \in Calls :
          /\ calls[c].pc = "done" => calls'[c] = calls[c]
          /\ calls[c].pc = "idle" /\ calls'[c].tool = "gpt5_query"
             /\ calls'[c].pc = "awaiting" =>
               LET s == handleGPT5QueryBegin(calls'[c].args, config)
               IN  /\ s.r.ok
                   /\ calls'[c].request = s.r.value
                   /\ calls'[c].sent = CreateArguments(s.r.value)
          /\ calls[c].pc = "awaiting" /\ calls'[c] # calls[c] =>
               /\ calls'[c].pc = "done"
               /\ calls'[c].tool = calls[c].tool
               /\ calls'[c].args = calls[c].args
               /\ calls'[c].request = calls[c].request
               /\ calls'[c].sent = calls[c].sent
               /\ \E o \in Outcomes :
                    calls'[c].response =
                      SoloResponse(calls[c].tool, calls[c].args, o)]_vars

\* Two gpt5_query calls with different arguments are suspended at their
\* create calls at the same time.
C18_Witness ==
  \E c, d \in Calls :
    /\ c # d
    /\ calls[c].tool = "gpt5_query" /\ calls[c].pc = "awaiting"
    /\ calls[d].tool = "gpt5_query" /\ calls[d].pc = "awaiting"
    /\ calls[c].args # calls[d].args
    /\ calls[c].sent # calls[d].sent

\* C19: for every environment, loadConfiguration fails with a
\* ConfigurationError or returns a configuration whose API key starts with
\* "sk-", whose timeout is a number of at least 1000, whose max retries is a
\* number in 0..10, whose retry delay is a number of at least 100 and whose
\* log level is debug, info, warn or error.
AtLeast(v, lo) == v.t = "number" /\ v.x = <<>> /\ v.n >= lo

C19_LoadedConfigurationInRange ==
  Loaded =>
    IF output.result.ok
    THEN LET cfg == output.result.value
         IN  /\ cfg.openai.apiKey.t = "string"
             /\ Len(cfg.openai.apiKey.x) >= 3
             /\ SubSeq(cfg.openai.apiKey.x, 1, 3)
                  = <<Run("s", 1), Run("k", 1), Run("-", 1)>>
             /\ AtLeast(cfg.openai.timeout, 1000)
             /\ AtLeast(cfg.server.maxRetries, 0)
             /\ cfg.server.maxRetries.n <= 10
             /\ AtLeast(cfg.server.retryDelay, 100)
             /\ cfg.logging.level
                  \in {Str(Tok(l)) : l \in {"debug", "info", "warn", "error"}}
    ELSE output.result.error.name = "ConfigurationError"

\* C20: loading fails when GPT5_DEFAULT_MODEL is set outside gpt-5,
\* gpt-5-mini, gpt-5-nano; the default model of every configuration loaded
\* is one of the three.
C20_DefaultModelInEnumeration ==
  Loaded =>
    /\ (/\ input.raw.env.GPT5_DEFAULT_MODEL.t = "string"
        /\ input.raw.env.GPT5_DEFAULT_MODEL.x # <<>>
        /\ input.raw.env.GPT5_DEFAULT_MODEL
             \notin {Str(Tok(m)) : m \in {"gpt-5", "gpt-5-mini", "gpt-5-nano"}})
       => ~output.result.ok
    /\ output.result.ok =>
         output.result.value.openai.defaultModel
           \in {Str(Tok(m)) : m \in {"gpt-5", "gpt-5-mini", "gpt-5-nano"}}

\* C21: for each setting whose environment variable is absent, a
\* configuration loaded beside a defaults file holds the value of the file; and
\* without a defaults file, loading under a valid API key and no other
\* variable succeeds with the hardcoded fallbacks.
SettingOf(cfg, setting) ==
  CASE setting = "OPENAI_BASE_URL" -> cfg.openai.baseURL
    [] setting = "GPT5_DEFAULT_MODEL" -> cfg.openai.defaultModel
    [] setting = "OPENAI_TIMEOUT" -> cfg.openai.timeout
    [] setting = "MAX_RETRIES" -> cfg.server.maxRetries
    [] setting = "RETRY_DELAY" -> cfg.server.retryDelay
    [] setting = "SERVER_NAME" -> cfg.server.name
    [] setting = "LOG_LEVEL" -> cfg.logging.level
    [] setting = "LOG_REQUESTS" -> cfg.logging.logRequests
    [] setting = "LOG_RESPONSES" -> cfg.logging.logResponses

Settings ==
  {"OPENAI_BASE_URL", "GPT5_DEFAULT_MODEL", "OPENAI_TIMEOUT", "MAX_RETRIES",
   "RETRY_DELAY", "SERVER_NAME", "LOG_LEVEL", "LOG_REQUESTS", "LOG_RESPONSES"}

C21_FileSuppliesDefaults ==
  Loaded =>
    LET env == input.raw.env
        file == input.raw.file
        absent == {v \in Settings : env[v].t = "undefined"}
    IN  /\ output.result.ok /\ file.exists =>
             \A v \in absent :
               SettingOf(output.result.value, v) = SettingOf(file.content, v)
        /\ ~file.exists /\ output.result.ok =>
             \A v \in absent :
               SettingOf(output.result.value, v) = SettingOf(HardcodedDefaults, v)
        /\ (/\ ~file.exists
            /\ env.OPENAI_API_KEY.t = "string"
            /\ Len(env.OPENAI_API_KEY.x) >= 3
            /\ SubSeq(env.OPENAI_API_KEY.x, 1, 3)
                 = <<Run("s", 1), Run("k", 1), Run("-", 1)>>
            /\ absent = Settings \ {"LOG_REQUESTS"})
           => output.result.ok

\* C22: under a valid API key and SERVER_NAME set to the empty string,
\* loadConfiguration fails with a ConfigurationError whose message holds
\* "Server name is required".
C22_EmptyServerNameRejected ==
  Loaded
  /\ input.raw.env.SERVER_NAME = Str(<<>>)
  /\ input.raw.env.OPENAI_API_KEY.t = "string"
  /\ Len(input.raw.env.OPENAI_API_KEY.x) >= 3
  /\ SubSeq(input.raw.env.OPENAI_API_KEY.x, 1, 3)
       = <<Run("s", 1), Run("k", 1), Run("-", 1)>>
  => /\ ~output.result.ok
     /\ output.result.error.name = "ConfigurationError"
     /\ Embeds(output.result.error.message, Tok("Server name is required"))

\* C23: a process that ended with a non-zero status because configuration
\* loading or the construction of the client failed has logged the hint of
\* the category of its error: the configuration hint for a
\* ConfigurationError, the client hint for a GPT5ClientError.
InLog(line) ==
  \E i \in 1..Len(output.result.log) : output.result.log[i] = line

C23_StartupFailureLogsHint ==
  input.fn = "main" /\ output.result.pc = "exited"
  /\ output.result.exitedAt = "entry" =>
    /\ output.result.exitCode # 0
    /\ output.result.error.name = "ConfigurationError" => InLog(ConfigurationHint)
    /\ output.result.error.name = "GPT5ClientError" => InLog(ClientHint)

\* C24: under a configuration that loads, start makes one connectivity
\* probe and goes on to connect the transport whether the probe succeeded or
\* failed: a failed probe leaves the warning in the log, and the process ends
\* with a non-zero status only where the transport fails to connect.
C24_ProbeNeverAborts ==
  input.fn = "main" =>
    LET proc == output.result
    IN  /\ proc.probes <= 1
        /\ proc.pc \in {"connecting", "serving"} =>
             /\ proc.probes = 1
             /\ proc.isConnected \in {"true", "false"}
             /\ proc.isConnected = "false" => InLog(ProbeWarning)
        /\ proc.pc = "exited" /\ proc.exitedAt # "entry" /\ proc.exitCode # 0 =>
             /\ proc.exitedAt = "connecting"
             /\ proc.error.message = Tok("transport failed")

\* The server is serving after a probe that failed.
C24_Witness ==
  /\ input.fn = "main"
  /\ output.result.pc = "serving"
  /\ output.result.probes = 1
  /\ output.result.isConnected = "false"
  /\ InLog(ProbeWarning)

\* C25: for every configured default model, the model validateRequest gives
\* to a request without model is the default the list-operations response
\* advertises for the model field.
C25_AdvertisedDefaultModel ==
  Validated /\ output.result.ok /\ input.raw.model.t = "undefined" =>
    output.result.value.model = ListToolsInputSchema.model.default

\* C26: the request of every gpt5_query call that reached the upstream API
\* has a non-empty prompt, a model of gpt-5, gpt-5-mini, gpt-5-nano, a
\* verbosity of low, medium, high, a reasoning_effort of minimal, standard,
\* extended, max_tokens absent or in 1..128000 and temperature absent or in
\* 0..2; and a call whose arguments validateRequest rejects, or turns into a
\* request that breaks one of these, has returned the error response
\* without an upstream call.
Conforms(request) ==
  /\ request.prompt.t = "string" /\ request.prompt.x # <<>>
  /\ request.model \in {Str(Tok(m)) : m \in {"gpt-5", "gpt-5-mini", "gpt-5-nano"}}
  /\ request.verbosity \in {Str(Tok(v)) : v \in {"low", "medium", "high"}}
  /\ request.reasoning_effort
       \in {Str(Tok(e)) : e \in {"minimal", "standard", "extended"}}
  /\ \/ request.max_tokens.t = "undefined"
     \/ /\ request.max_tokens.t = "number"
        /\ request.max_tokens.n >= 1 /\ request.max_tokens.n <= 128000
  /\ \/ request.temperature.t = "undefined"
     \/ /\ request.temperature.t = "number"
        /\ request.temperature.n >= 0 /\ request.temperature.n <= 2

C26_OnlyValidRequestsReachUpstream ==
  \A c \in Calls :
    calls[c].tool = "gpt5_query" =>
      LET validated == validateRequest(calls[c].args, config)
      IN  /\ calls[c].upstreamCalls > 0 => Conforms(calls[c].request)
          /\ ~validated.ok \/ ~Conforms(validated.value) =>
               /\ calls[c].upstreamCalls = 0
               /\ calls[c].sent = NoArguments
               /\ calls[c].pc = "done"
               /\ calls[c].response.isError = "true"
               /\ calls[c].response.content[1] = Run(ErrorPrefix, 1)

\* One call is at the upstream API with a temperature clamped from 3 to 2,
\* and one call with a model outside the enumeration has returned the error
\* response without an upstream call.
C26_Witness ==
  \E c, d \in Calls :
    /\ calls[c].tool = "gpt5_query" /\ calls[c].upstreamCalls = 1
    /\ calls[c].args.temperature = Num(3)
    /\ calls[c].request.temperature = Num(2)
    /\ calls[d].tool = "gpt5_query" /\ calls[d].pc = "done"
    /\ calls[d].args.model = Str(Tok("gpt-4"))
    /\ calls[d].upstreamCalls = 0
    /\ calls[d].response.isError = "true"

\* C27: in the gpt5_query pipeline truncateIfNeeded changes no request: the
\* prompt and the context that validateRequest returns have at most 100000
\* characters each, so the estimate stays within 380000 tokens and the
\* request that goes on to the client is the one the schema returned.
C27_TruncateIdleInPipeline ==
  \A c \in Calls :
    calls[c].tool = "gpt5_query" =>
      LET validated == validateRequest(calls[c].args, config)
          parsed == SchemaParse(validated.value)
      IN  validated.ok =>
            /\ Length(validated.value.prompt.x) <= SanitizeCap
            /\ Length(ContextOrEmpty(validated.value)) <= SanitizeCap
            /\ parsed.ok =>
                 /\ estimateTokens(Concat(parsed.value.prompt.x,
                                          ContextOrEmpty(parsed.value)))
                      <= MaxPromptTokens
                 /\ truncateIfNeeded(parsed.value) = parsed.value
                 /\ calls[c].request = parsed.value

\* A call whose raw prompt is longer than maxChars went through the
\* pipeline: its request holds the prompt cut at 100000 characters, with no
\* truncation marker, and is at the upstream API.
C27_Witness ==
  \E c \in Calls :
    /\ calls[c].tool = "gpt5_query"
    /\ calls[c].args.t = "object"
    /\ Length(calls[c].args.prompt.x) > MaxPromptTokens * CharsPerToken
    /\ calls[c].upstreamCalls = 1
    /\ calls[c].request.prompt = Str(X(SanitizeCap))
    /\ calls[c].request.context = Str(X(3))

\* C28: the request truncateIfNeeded returns has an estimated token count,
\* the number of characters of prompt and context divided by 4 and rounded
\* up, of at most 380000, the truncation markers counted.
C28_TruncatedWithinLimit ==
  Truncated =>
    estimateTokens(Concat(output.result.value.prompt.x,
                          ContextOrEmpty(output.result.value)))
      <= MaxPromptTokens

\* C29: every response of a tool call whose text is an error block carries
\* isError = true and every response whose text is a success block carries
\* isError = false, for gpt5_query, gpt5_test_connection and a tool name
\* the server does not know.
IsErrorBlock(content) ==
  /\ content # <<>>
  /\ content[1].ch \in {ErrorPrefix, "(cross) **GPT-5 Connection Failed**"}

C29_IsErrorMatchesText ==
  \A c \in Calls :
    calls[c].pc = "done" /\ ~calls[c].escaped =>
      calls[c].response.isError =
        IF IsErrorBlock(calls[c].response.content) THEN "true" ELSE "false"

\* C30: the fence repair changes opening fences only: a closing fence, three
\* backticks that end a fenced block and are followed by a newline and
\* further prose, is the same in the content returned and is not followed
\* by the tag "text".
C30_ClosingFenceLeftBare ==
  Formatted =>
    \A i \in FenceRuns(input.text) :
      /\ input.text[i].n = 3
      /\ FenceCount(SubSeq(input.text, 1, i - 1)) % 2 = 1
      /\ i + 1 < Len(input.text)
      /\ input.text[i + 1].ch = "\n"
      => \E j \in FenceRuns(output.text) :
            /\ FenceOrdinal(output.text, j) = FenceOrdinal(input.text, i)
            /\ j < Len(output.text)
            /\ output.text[j + 1].ch = "\n"

====
